---- MODULE Spec2Model ----
(***************************************************************************)
(* Model of sports_dash.py: the Streamlit dashboard with its two cached    *)
(* fetch helpers (fetch_table, fetch_json), the three prediction functions *)
(* (conmebol_predictions, uefa_predictions, wnba_predictions) and the      *)
(* render script that hands the selected function's table to the UI.       *)
(*                                                                         *)
(* One Streamlit rerun of the script is one action (a Render action):      *)
(* every fetch it makes goes through the st.cache_data store, the answers  *)
(* of the network are inputs of the action.  Time advances in hours (Tick).*)
(***************************************************************************)
EXTENDS Integers, Sequences, FiniteSets, TLC

VARIABLES
  now,      \* wall clock, in hours since the midnight before the start
  tcache,   \* st.cache_data store of fetch_table: (url, match) -> entry
  jcache,   \* st.cache_data store of fetch_json: url -> entry
  sel,      \* the sidebar radio's selection in the last rerun
  ui,       \* what the last rerun left on the page
  df,       \* the result of SPORT_FUNCS[sel]() in the last rerun
  calls,    \* the fetch calls of the last operation, in order
  net,      \* the network's answer to the last direct call of a fetch helper
  nops      \* number of operations so far

vars == <<now, tcache, jcache, sel, ui, df, calls, net, nops>>

(***************************************************************************)
(* Bounds of the model.                                                    *)
(***************************************************************************)
MaxTime == 25
MaxTables == 2
MaxEvents == 1
MaxRenders == 2
MaxCalls == 2
MaxTeams == 2
MaxCount == 2

(***************************************************************************)
(* Program constants.                                                      *)
(***************************************************************************)
\* ttl = 4 * 60 * 60 seconds, in hours
TTL == 4
\* date.today() changes every 24 hours
HoursPerDay == 24
\* the dashboard is started three hours before midnight
StartHour == HoursPerDay - 3
\* range(7): goals 0..6 per side
GoalRange == 7
\* elo() default rating
DefaultElo == 1500
\* home-field Elo bonus
HomeBonus == 60

(***************************************************************************)
(* Values.  A cell of a table is a number, a numeric string, another       *)
(* string (a sequence of tokens, "NBSP" being the character \xa0) or       *)
(* missing.  A DataFrame is its column labels and its rows.                *)
(***************************************************************************)
Num(n) == [k |-> "num", n |-> n, s |-> <<>>]
NumStr(n) == [k |-> "numstr", n |-> n, s |-> <<>>]
Str(s) == [k |-> "str", n |-> 0, s |-> s]

DataFrame(cols, rows) == [cols |-> cols, rows |-> rows]

\* pd.DataFrame()
EmptyDataFrame == DataFrame(<<>>, <<>>)

\* DataFrame.empty: some axis has length 0
IsEmpty(d) == Len(d.cols) = 0 \/ Len(d.rows) = 0

\* a JSON document: a dict with or without the key "events", or not a dict
Doc(events) == [kind |-> "dict", hasEvents |-> TRUE, events |-> events]

\* {}
EmptyDoc == [kind |-> "dict", hasEvents |-> FALSE, events |-> <<>>]

\* a JSON body that is an array
ListDoc == [kind |-> "list", hasEvents |-> FALSE, events |-> <<>>]

\* the result of a call: a value, or the exception that left it
Ret(v) == [exc |-> "none", val |-> v]
Raise(e, placeholder) == [exc |-> e, val |-> placeholder]

(***************************************************************************)
(* The network.  A response to a GET has a status; an "ok" response to     *)
(* a page request carries the page's tables in document order, each with   *)
(* the patterns its text matches, an "ok" response to a JSON request       *)
(* carries the parsed body.                                                *)
(***************************************************************************)
FailureStatus == {"unreachable", "timeout", "http_error", "malformed"}

ExceptionOf(status) ==
  CASE status = "unreachable" -> "ConnectionError"
    [] status = "timeout" -> "Timeout"
    [] status = "http_error" -> "HTTPError"
    [] OTHER -> "ValueError"

Page(status, tables) == [status |-> status, tables |-> tables]
Body(status, doc) == [status |-> status, doc |-> doc]
Table(tags, d) == [tags |-> tags, d |-> d]

\* the response slot of a call that is answered from the cache
NoPage == Page("none", <<>>)
NoBody == Body("none", EmptyDoc)

\* pd.read_html(url, match=match): the tables whose text matches, in
\* document order; raises when the request or the parse fails and when no
\* table matches
read_html(page, match) ==
  IF page.status # "ok" THEN Raise(ExceptionOf(page.status), <<>>)
  ELSE LET m == SelectSeq(page.tables, LAMBDA t : match \in t.tags)
       IN  IF m = <<>> THEN Raise("ValueError", <<>>) ELSE Ret(m)

\* requests.get(url, timeout=10); r.raise_for_status(); r.json()
get_json(body) ==
  IF body.status # "ok" THEN Raise(ExceptionOf(body.status), EmptyDoc)
  ELSE Ret(body.doc)

(***************************************************************************)
(* 1. Utility helpers                                                      *)
(***************************************************************************)
\* fetch_table without its except clause
fetch_table_uncaught(page, match) ==
  LET tbls == read_html(page, match)
  IN  IF tbls.exc = "none" THEN Ret(tbls.val[1].d)
      ELSE Raise(tbls.exc, EmptyDataFrame)

\* the function under @st.cache_data: try / except Exception
fetch_table(page, match) ==
  LET tbls == read_html(page, match)
  IN  IF tbls.exc = "none" THEN Ret(tbls.val[1].d)
      ELSE Ret(EmptyDataFrame)

fetch_json(body) ==
  LET r == get_json(body)
  IN  IF r.exc = "none" THEN Ret(r.val)
      ELSE Ret(EmptyDoc)

\* st.cache_data(ttl=4 * 60 * 60): an entry is the stored return value
\* and the time it was stored
Entry(v, t) == [has |-> TRUE, at |-> t, val |-> v]
NoTableEntry == [has |-> FALSE, at |-> 0, val |-> EmptyDataFrame]
NoJsonEntry == [has |-> FALSE, at |-> 0, val |-> EmptyDoc]

\* an entry served up to and including the age ttl
FreshInclusive(cache, key, t) == cache[key].has /\ t - cache[key].at <= TTL

\* an entry is served while it is younger than the ttl
Fresh(cache, key, t) == cache[key].has /\ t - cache[key].at < TTL

CallRecord(fn, key, hit, requests, ret) ==
  [fn |-> fn, key |-> key, hit |-> hit, requests |-> requests, ret |-> ret]

\* a call of the cached fetch_table at time t: the new store, the call's
\* record and its result
cached_fetch_table(cache, t, url, match, page) ==
  LET key == <<url, match>>
  IN  IF Fresh(cache, key, t)
      THEN [cache |-> cache,
            rec |-> CallRecord("fetch_table", key, TRUE, 0,
                               Ret(cache[key].val)),
            ret |-> Ret(cache[key].val)]
      ELSE LET r == fetch_table(page, match)
           IN  [cache |-> IF r.exc = "none"
                          THEN [cache EXCEPT ![key] = Entry(r.val, t)]
                          ELSE cache,
                rec |-> CallRecord("fetch_table", key, FALSE, 1, r),
                ret |-> r]

cached_fetch_json(cache, t, url, body) ==
  LET key == <<url>>
  IN  IF Fresh(cache, key, t)
      THEN [cache |-> cache,
            rec |-> CallRecord("fetch_json", key, TRUE, 0,
                               Ret(cache[key].val)),
            ret |-> Ret(cache[key].val)]
      ELSE LET r == fetch_json(body)
           IN  [cache |-> IF r.exc = "none"
                          THEN [cache EXCEPT ![key] = Entry(r.val, t)]
                          ELSE cache,
                rec |-> CallRecord("fetch_json", key, FALSE, 1, r),
                ret |-> r]

(***************************************************************************)
(* Floating point values as the model needs them: a non-negative rational  *)
(* n/d, NaN or +inf.  All quantities of the program are non-negative.      *)
(***************************************************************************)
RECURSIVE GCD(_, _)
GCD(a, b) == IF b = 0 THEN a ELSE GCD(b, a % b)

NaN == [k |-> "nan", n |-> 0, d |-> 1]
Inf == [k |-> "inf", n |-> 1, d |-> 0]
Fin(n, d) == LET g == GCD(n, d) IN [k |-> "fin", n |-> n \div g, d |-> d \div g]
Zero == Fin(0, 1)

FAdd(x, y) ==
  IF x.k = "nan" \/ y.k = "nan" THEN NaN
  ELSE IF x.k = "inf" \/ y.k = "inf" THEN Inf
  ELSE Fin(x.n * y.d + y.n * x.d, x.d * y.d)

FMul(x, y) ==
  IF x.k = "nan" \/ y.k = "nan" THEN NaN
  ELSE IF x.k = "inf" THEN (IF y.k = "fin" /\ y.n = 0 THEN NaN ELSE Inf)
  ELSE IF y.k = "inf" THEN (IF x.n = 0 THEN NaN ELSE Inf)
  ELSE LET g1 == GCD(x.n, y.d)
           g2 == GCD(y.n, x.d)
       IN  IF x.n = 0 \/ y.n = 0 THEN Zero
           ELSE Fin((x.n \div g1) * (y.n \div g2), (x.d \div g2) * (y.d \div g1))

\* numpy division: x/0 is inf (nan for 0/0), never an exception
FDiv(x, y) ==
  IF x.k = "nan" \/ y.k = "nan" THEN NaN
  ELSE IF y.k = "inf" THEN (IF x.k = "inf" THEN NaN ELSE Zero)
  ELSE IF y.n = 0 THEN (IF x.k = "fin" /\ x.n = 0 THEN NaN ELSE Inf)
  ELSE IF x.k = "inf" THEN Inf
  ELSE FMul(x, Fin(y.d, y.n))

\* alpha = 1.5  (Laplace smoothing)
alpha == Fin(3, 2)

\* the home-advantage factor 1.12
HomeAdvantage == Fin(112, 100)

\* pd.to_numeric(cell, errors="coerce")
to_numeric(cell) ==
  IF cell.k \in {"num", "numstr"} THEN Fin(cell.n, 1) ELSE NaN

\* Series.sum(): NaN entries are skipped, the sum of nothing is 0
RECURSIVE SumSkipNa(_)
SumSkipNa(xs) ==
  IF xs = <<>> THEN Zero
  ELSE IF Head(xs).k = "nan" THEN SumSkipNa(Tail(xs))
  ELSE FAdd(Head(xs), SumSkipNa(Tail(xs)))

\* position of a column label, 0 when the frame has no such column
RECURSIVE ColIndexFrom(_, _, _)
ColIndexFrom(cols, label, i) ==
  IF i > Len(cols) THEN 0
  ELSE IF cols[i] = label THEN i
  ELSE ColIndexFrom(cols, label, i + 1)

ColIndex(cols, label) == ColIndexFrom(cols, label, 1)

HasCols(d, labels) == \A l \in labels : ColIndex(d.cols, l) # 0

\* str(cell).replace("\xa0", " ")
str(cell) == IF cell.k = "str" THEN cell.s ELSE <<ToString(cell.n)>>
replace_nbsp(s) == [i \in 1..Len(s) |-> IF s[i] = "NBSP" THEN "SP" ELSE s[i]]

(***************************************************************************)
(* 2. FOOTBALL - CONMEBOL predictions                                      *)
(***************************************************************************)
wiki_url == "en.wikipedia.org/wiki/2026_FIFA_World_Cup_qualification_(CONMEBOL)"

\* the regex \d{1,2}\s+June\s+2025
FixturePattern == "June2025"

Fixture(h, a) == [Home |-> h, Away |-> a]

\* the manual fixture list
ManualFixtures ==
  << Fixture(<<"Argentina">>, <<"Colombia">>),
     Fixture(<<"Brazil">>, <<"Paraguay">>),
     Fixture(<<"Bolivia">>, <<"Chile">>),
     Fixture(<<"Peru">>, <<"Ecuador">>) >>

\* standings[["Team", "Pld", "GF", "GA"]], renamed, MP/GF/GA made numeric
CleanStandings(d) ==
  [i \in 1..Len(d.rows) |->
     [Team |-> d.rows[i][ColIndex(d.cols, "Team")],
      MP |-> to_numeric(d.rows[i][ColIndex(d.cols, "Pld")]),
      GF |-> to_numeric(d.rows[i][ColIndex(d.cols, "GF")]),
      GA |-> to_numeric(d.rows[i][ColIndex(d.cols, "GA")])]]

\* row[0], row[2] of the scraped table (its columns are labelled 0, 1, ...)
RECURSIVE ScrapedFixtures(_, _, _)
ScrapedFixtures(d, i, acc) ==
  IF i > Len(d.rows) THEN Ret(acc)
  ELSE IF ColIndex(d.cols, "0") = 0 \/ ColIndex(d.cols, "2") = 0
       THEN Raise("KeyError", acc)
  ELSE LET h == str(d.rows[i][ColIndex(d.cols, "0")])
           a == str(d.rows[i][ColIndex(d.cols, "2")])
       IN  ScrapedFixtures(d, i + 1,
             Append(acc, Fixture(replace_nbsp(h), replace_nbsp(a))))

league_GF(st) == SumSkipNa([i \in 1..Len(st) |-> FAdd(st[i].GF, alpha)])
league_MP(st) == SumSkipNa([i \in 1..Len(st) |-> FAdd(st[i].MP, alpha)])

\* goals per team-match
league_avg(st) == FDiv(FDiv(league_GF(st), league_MP(st)), Fin(2, 1))

\* the rating computed from the goals against
attack_conceded(st, r) ==
  FDiv(FDiv(FAdd(r.GA, alpha), FAdd(r.MP, alpha)), league_avg(st))

attack(st, r) ==
  FDiv(FDiv(FAdd(r.GF, alpha), FAdd(r.MP, alpha)), league_avg(st))

defence(st, r) ==
  FDiv(FDiv(FAdd(r.GA, alpha), FAdd(r.MP, alpha)), league_avg(st))

\* standings.set_index("Team"): h in standings.index, standings.loc[h]
InIndex(st, name) == \E i \in 1..Len(st) : st[i].Team = Str(name)
Loc(st, name) == st[CHOOSE i \in 1..Len(st) : st[i].Team = Str(name)]

\* np.exp(-lmbd) * (lmbd ** k) / math.factorial(k): the module never
\* imports math, the name lookup raises
poisson_pmf(lmbd, k) == Raise("NameError", NaN)

\* the sums p_home, p_draw, p_away, p_over25, each as the set of the
\* scorelines (i, j) whose mass p(i, j) it has received
NoMass == [home |-> {}, draw |-> {}, away |-> {}, over25 |-> {}]

AddScoreline(acc, i, j) ==
  [home |-> IF i > j THEN acc.home \cup {<<i, j>>} ELSE acc.home,
   draw |-> IF i = j THEN acc.draw \cup {<<i, j>>} ELSE acc.draw,
   away |-> IF i < j THEN acc.away \cup {<<i, j>>} ELSE acc.away,
   over25 |-> IF i + j > 2 THEN acc.over25 \cup {<<i, j>>} ELSE acc.over25]

\* for i in range(7): for j in range(7): scoreline number n is (i, j)
RECURSIVE Convolution(_, _, _, _)
Convolution(lh, la, n, acc) ==
  IF n = GoalRange * GoalRange THEN Ret(acc)
  ELSE LET i == n \div GoalRange
           j == n % GoalRange
           pi == poisson_pmf(lh, i)
           pj == poisson_pmf(la, j)
       IN  IF pi.exc # "none" THEN Raise(pi.exc, acc)
           ELSE IF pj.exc # "none" THEN Raise(pj.exc, acc)
           ELSE Convolution(lh, la, n + 1, AddScoreline(acc, i, j))

\* round(x, digits) of a float, scale = 10 ** digits
Round(x, scale) ==
  IF x.k # "fin" THEN x
  ELSE Fin((2 * x.n * scale + x.d) \div (2 * x.d), scale)

ExpGoals_H(st, h, a) ==
  FMul(FMul(FMul(league_avg(st), attack(st, Loc(st, h))),
            defence(st, Loc(st, a))), HomeAdvantage)

ExpGoals_A(st, h, a) ==
  FMul(FMul(league_avg(st), attack(st, Loc(st, a))), defence(st, Loc(st, h)))

\* the loop over the fixtures: a fixture with a team outside the index is
\* skipped, an exception ends the loop with the rows made so far
RECURSIVE PredictionRows(_, _, _)
PredictionRows(st, fixtures, rows) ==
  IF fixtures = <<>> THEN Ret(rows)
  ELSE LET h == Head(fixtures).Home
           a == Head(fixtures).Away
       IN  IF ~InIndex(st, h) \/ ~InIndex(st, a)
           THEN PredictionRows(st, Tail(fixtures), rows)
           ELSE LET lh == ExpGoals_H(st, h, a)
                    la == ExpGoals_A(st, h, a)
                    c == Convolution(lh, la, 0, NoMass)
                IN  IF c.exc # "none" THEN Raise(c.exc, rows)
                    ELSE PredictionRows(st, Tail(fixtures),
                           Append(rows,
                             [Home |-> h, Away |-> a,
                              ExpGoals_H |-> Round(lh, 100),
                              ExpGoals_A |-> Round(la, 100),
                              PHome |-> c.val.home, PDraw |-> c.val.draw,
                              PAway |-> c.val.away, POver25 |-> c.val.over25]))

\* pd.DataFrame(rows): no rows, no columns
PredictionFrame(cols, rows) ==
  IF rows = <<>> THEN EmptyDataFrame ELSE DataFrame(cols, rows)

ConmebolCols ==
  <<"Home", "Away", "ExpGoals_H", "ExpGoals_A",
    "P(Home)", "P(Draw)", "P(Away)", "P(>2.5)">>

\* the fixtures of a call: the manual list when nothing was scraped
FixturesOf(fixtures_all) ==
  IF IsEmpty(fixtures_all) THEN Ret(ManualFixtures)
  ELSE ScrapedFixtures(fixtures_all, 1, <<>>)

Outcome(cache, cs, ret) == [cache |-> cache, calls |-> cs, ret |-> ret]

\* conmebol_predictions() at time t; p1 and p2 are the network's answers to
\* the standings request and to the fixtures request, were they issued
conmebol_predictions(cache, t, p1, p2) ==
  LET c1 == cached_fetch_table(cache, t, wiki_url, "Team", p1)
      standings == c1.ret.val
  IN  IF c1.ret.exc # "none"
      THEN Outcome(c1.cache, <<c1.rec>>, Raise(c1.ret.exc, EmptyDataFrame))
      ELSE IF IsEmpty(standings)
      THEN Outcome(c1.cache, <<c1.rec>>, Ret(EmptyDataFrame))
      ELSE IF ~HasCols(standings, {"Team", "Pld", "GF", "GA"})
      THEN Outcome(c1.cache, <<c1.rec>>, Raise("KeyError", EmptyDataFrame))
      ELSE
        LET c2 == cached_fetch_table(c1.cache, t, wiki_url, FixturePattern, p2)
            cs == <<c1.rec, c2.rec>>
            fx == FixturesOf(c2.ret.val)
            st == CleanStandings(standings)
            rows == PredictionRows(st, fx.val, <<>>)
        IN  IF c2.ret.exc # "none"
            THEN Outcome(c2.cache, cs, Raise(c2.ret.exc, EmptyDataFrame))
            ELSE IF fx.exc # "none"
            THEN Outcome(c2.cache, cs, Raise(fx.exc, EmptyDataFrame))
            ELSE IF rows.exc # "none"
            THEN Outcome(c2.cache, cs, Raise(rows.exc, EmptyDataFrame))
            ELSE Outcome(c2.cache, cs,
                         Ret(PredictionFrame(ConmebolCols, rows.val)))

(***************************************************************************)
(* Scoreboard documents.  An event has a list "competitions" (or lacks     *)
(* the key); a competition has an optional type slug and its competitors;  *)
(* a competitor has homeAway, an optional team with its two names and an   *)
(* optional list of records, a record's summary being the tokens between   *)
(* the "-" of the "W-L" string.                                            *)
(***************************************************************************)
Competitor(homeAway, hasTeam, short, display, hasRecords, records) ==
  [homeAway |-> homeAway, hasTeam |-> hasTeam,
   shortDisplayName |-> short, displayName |-> display,
   hasRecords |-> hasRecords, records |-> records]

Competition(hasType, slug, competitors) ==
  [hasType |-> hasType, slug |-> slug, competitors |-> competitors]

Event(hasCompetitions, competitions) ==
  [hasCompetitions |-> hasCompetitions, competitions |-> competitions]

\* TODAY = date.today().strftime("%Y-%m-%d"), as a day number
TODAY(t) == t \div HoursPerDay

espn_url(date_str) == <<"espn/soccer/fifa.world/scoreboard", date_str>>
wnba_url(date_str) == <<"espn/basketball/wnba/scoreboard", date_str>>
elo_url == "raw.githubusercontent.com/fifa_elo_latest.csv"

PredCols == <<"Home", "Away", "P(Home)", "P(Away)">>

PredRow(h, a, ph, pa) == [Home |-> h, Away |-> a, PHome |-> ph, PAway |-> pa]

Outcome2(tc, jc, cs, ret) ==
  [tcache |-> tc, jcache |-> jc, calls |-> cs, ret |-> ret]

(***************************************************************************)
(* 3. FOOTBALL - UEFA predictions                                          *)
(***************************************************************************)
\* the sample shown when no event was fetched (probabilities per mille)
UefaSample ==
  DataFrame(PredCols, << PredRow("Finland", "Poland", 170, 830),
                         PredRow("Netherlands", "Malta", 991, 9) >>)

\* float(cell)
float(cell) ==
  IF cell.k \in {"num", "numstr"} THEN Ret(cell.n) ELSE Raise("ValueError", 0)

\* elo(team): 1500 for an empty table and for a team not in the table
elo(elo_df, team) ==
  IF IsEmpty(elo_df) THEN Ret(DefaultElo)
  ELSE IF ColIndex(elo_df.cols, "team") = 0 THEN Raise("KeyError", 0)
  ELSE LET c == ColIndex(elo_df.cols, "team")
           hits == SelectSeq(elo_df.rows, LAMBDA r : r[c] = Str(<<team>>))
       IN  IF hits = <<>> THEN Ret(DefaultElo)
           ELSE IF ColIndex(elo_df.cols, "elo") = 0 THEN Raise("KeyError", 0)
           ELSE float(hits[1][ColIndex(elo_df.cols, "elo")])

\* round(1 / (1 + 10 ** (-d / 400)), 3) and round(1 - ph, 3), per mille,
\* tabulated for the rating differences d the model's ratings produce
Logistic(d) ==
  CASE d = 60 -> <<585, 415>>
    [] d = 460 -> <<934, 66>>
    [] d = -340 -> <<124, 876>>

RECURSIVE UefaRows(_, _, _)
UefaRows(elo_df, events, rows) ==
  IF events = <<>> THEN Ret(rows)
  ELSE LET ev == Head(events)
           comp == ev.competitions[1]
           h == comp.competitors[1]
           a == comp.competitors[2]
           home == IF h.homeAway = "home" THEN h ELSE a
           away == IF h.homeAway = "home" THEN a ELSE h
           eh == elo(elo_df, home.shortDisplayName)
           ea == elo(elo_df, away.shortDisplayName)
           p == Logistic(eh.val + HomeBonus - ea.val)
       IN  IF ~ev.hasCompetitions THEN Raise("KeyError", rows)
           ELSE IF ev.competitions = <<>> THEN Raise("IndexError", rows)
           ELSE IF ~comp.hasType \/ comp.slug # "uefa"
           THEN UefaRows(elo_df, Tail(events), rows)
           ELSE IF Len(comp.competitors) # 2 THEN Raise("ValueError", rows)
           ELSE IF ~home.hasTeam \/ ~away.hasTeam THEN Raise("KeyError", rows)
           ELSE IF eh.exc # "none" THEN Raise(eh.exc, rows)
           ELSE IF ea.exc # "none" THEN Raise(ea.exc, rows)
           ELSE UefaRows(elo_df, Tail(events),
                  Append(rows, PredRow(home.shortDisplayName,
                                       away.shortDisplayName, p[1], p[2])))

\* uefa_predictions() at time t; body and page are the network's answers to
\* the scoreboard request and to the ratings request, were they issued
uefa_predictions(tc, jc, t, body, page) ==
  LET c1 == cached_fetch_json(jc, t, espn_url(TODAY(t)), body)
      data == c1.ret.val
  IN  IF c1.ret.exc # "none"
      THEN Outcome2(tc, c1.cache, <<c1.rec>>,
                    Raise(c1.ret.exc, EmptyDataFrame))
      ELSE IF data.kind # "dict"
      THEN Outcome2(tc, c1.cache, <<c1.rec>>,
                    Raise("AttributeError", EmptyDataFrame))
      ELSE IF data.events = <<>>
      THEN Outcome2(tc, c1.cache, <<c1.rec>>, Ret(UefaSample))
      ELSE
        LET c2 == cached_fetch_table(tc, t, elo_url, "Team", page)
            cs == <<c1.rec, c2.rec>>
            rows == UefaRows(c2.ret.val, data.events, <<>>)
        IN  IF c2.ret.exc # "none"
            THEN Outcome2(c2.cache, c1.cache, cs,
                          Raise(c2.ret.exc, EmptyDataFrame))
            ELSE IF rows.exc # "none"
            THEN Outcome2(c2.cache, c1.cache, cs,
                          Raise(rows.exc, EmptyDataFrame))
            ELSE Outcome2(c2.cache, c1.cache, cs,
                          Ret(PredictionFrame(PredCols, rows.val)))

(***************************************************************************)
(* 4. BASKETBALL - WNBA predictions                                        *)
(***************************************************************************)
\* next(t for t in comp_team if t["homeAway"] == side)
NextSide(comp_team, side) ==
  LET m == SelectSeq(comp_team, LAMBDA c : c.homeAway = side)
  IN  IF m = <<>> THEN Raise("StopIteration", <<>>) ELSE Ret(m[1])

\* w, l = map(int, rec.split("-")) of records[0]["summary"], the default
\* record being "0-0"
Record(team_json) ==
  LET recs == IF team_json.hasRecords THEN team_json.records
              ELSE << <<NumStr(0), NumStr(0)>> >>
  IN  IF recs = <<>> THEN Raise("IndexError", <<0, 0>>)
      ELSE IF Len(recs[1]) # 2 THEN Raise("ValueError", <<0, 0>>)
      ELSE IF \E i \in 1..2 : recs[1][i].k # "numstr"
      THEN Raise("ValueError", <<0, 0>>)
      ELSE Ret(<<recs[1][1].n, recs[1][2].n>>)

\* ph = wp_h / (wp_h + wp_a + 1e-9) with wp = w / (w + l + 1e-9), as
\* round(ph, 3) and round(1 - ph, 3) per mille.  A team without a win has
\* wp = 0.0 exactly; otherwise the two epsilons put ph just below the exact
\* ratio of the win fractions, which matters to the rounding only when that
\* ratio is a tie k + 0.5 per mille
WinRatio(rh, ra) ==
  LET wh == rh[1]
      lh == rh[2]
      wa == ra[1]
      la == ra[2]
      num == IF wa = 0 THEN 1 ELSE wh * (wa + la)
      den == IF wa = 0 THEN 1 ELSE wh * (wa + la) + wa * (wh + lh)
      ph == IF wh = 0 THEN 0 ELSE (2000 * num + den - 1) \div (2 * den)
  IN  <<ph, 1000 - ph>>

RECURSIVE WnbaRows(_, _)
WnbaRows(events, rows) ==
  IF events = <<>> THEN Ret(rows)
  ELSE LET ev == Head(events)
           comp == ev.competitions[1]
           home == NextSide(comp.competitors, "home")
           away == NextSide(comp.competitors, "away")
           rh == Record(home.val)
           ra == Record(away.val)
           p == WinRatio(rh.val, ra.val)
       IN  IF ~ev.hasCompetitions THEN Raise("KeyError", rows)
           ELSE IF ev.competitions = <<>> THEN Raise("IndexError", rows)
           ELSE IF home.exc # "none" THEN Raise(home.exc, rows)
           ELSE IF away.exc # "none" THEN Raise(away.exc, rows)
           ELSE IF rh.exc # "none" THEN Raise(rh.exc, rows)
           ELSE IF ra.exc # "none" THEN Raise(ra.exc, rows)
           ELSE IF ~home.val.hasTeam \/ ~away.val.hasTeam
           THEN Raise("KeyError", rows)
           ELSE WnbaRows(Tail(events),
                  Append(rows, PredRow(home.val.displayName,
                                       away.val.displayName, p[1], p[2])))

\* wnba_predictions() at time t; body is the network's answer to the
\* scoreboard request, was it issued
wnba_predictions(tc, jc, t, body) ==
  LET c1 == cached_fetch_json(jc, t, wnba_url(TODAY(t)), body)
      data == c1.ret.val
      rows == WnbaRows(data.events, <<>>)
  IN  IF c1.ret.exc # "none"
      THEN Outcome2(tc, c1.cache, <<c1.rec>>,
                    Raise(c1.ret.exc, EmptyDataFrame))
      ELSE IF data.kind # "dict"
      THEN Outcome2(tc, c1.cache, <<c1.rec>>,
                    Raise("AttributeError", EmptyDataFrame))
      ELSE IF rows.exc # "none"
      THEN Outcome2(tc, c1.cache, <<c1.rec>>,
                    Raise(rows.exc, EmptyDataFrame))
      ELSE Outcome2(tc, c1.cache, <<c1.rec>>,
                    Ret(PredictionFrame(PredCols, rows.val)))

(***************************************************************************)
(* 5. STREAMLIT UI                                                         *)
(***************************************************************************)
Conmebol == "Futbol - Sudamerica"
Uefa == "Futbol - Europa (UEFA)"
Wnba == "Basketball - WNBA"

SPORT_FUNCS == <<Conmebol, Uefa, Wnba>>

\* the page after df = SPORT_FUNCS[sel](): the traceback of an uncaught
\* exception, the error of the empty table, or the table with its edges
Show(ret) ==
  IF ret.exc # "none"
  THEN [kind |-> "exception", exc |-> ret.exc, edges |-> "none", edge_rows |-> <<>>]
  ELSE IF IsEmpty(ret.val)
  THEN [kind |-> "error", exc |-> "none", edges |-> "none", edge_rows |-> <<>>]
  ELSE IF ColIndex(ret.val.cols, "P(Home)") = 0
  THEN [kind |-> "dataframe", exc |-> "none", edges |-> "none", edge_rows |-> <<>>]
  ELSE LET edge_df == SelectSeq(ret.val.rows, LAMBDA r : r.PHome >= 550)
       IN  [kind |-> "dataframe", exc |-> "none",
            edges |-> IF edge_df # <<>> THEN "subheader" ELSE "info",
            edge_rows |-> edge_df]

Blank == [kind |-> "blank", exc |-> "none", edges |-> "none", edge_rows |-> <<>>]

(***************************************************************************)
(* The inputs: what the three sources can answer.                          *)
(***************************************************************************)
SeqsUpTo(S, n) == UNION {[1..k -> S] : k \in 0..n}

StandingsRow(team, pld, gf, ga) == <<Str(<<team>>), pld, gf, ga, Num(0)>>
StandingsCols == <<"Team", "Pld", "GF", "GA", "Pts">>

\* a standings table with all ten teams
FullStandings ==
  Table({"Team"}, DataFrame(StandingsCols,
    << StandingsRow("Argentina", Num(2), Num(4), Num(1)),
       StandingsRow("Ecuador", Num(2), Num(2), Num(1)),
       StandingsRow("Paraguay", Num(2), Num(1), Num(1)),
       StandingsRow("Brazil", Num(2), Num(3), Num(2)),
       StandingsRow("Colombia", Num(2), Num(3), Num(2)),
       StandingsRow("Uruguay", Num(2), Num(2), Num(2)),
       StandingsRow("Venezuela", Num(2), Num(1), Num(3)),
       StandingsRow("Bolivia", Num(2), Num(1), Num(4)),
       StandingsRow("Peru", Num(2), Num(0), Num(3)),
       StandingsRow("Chile", Num(1), Num(1), Num(3)) >>))

\* a standings table whose GF column has a cell that is not a number
\* (the other cells of the column are then numeric strings)
DirtyStandings ==
  Table({"Team"}, DataFrame(StandingsCols,
    << StandingsRow("Argentina", Num(2), NumStr(4), Num(1)),
       StandingsRow("Colombia", Num(2), NumStr(3), Num(2)),
       StandingsRow("Brazil", Num(2), Str(<<"n/a">>), Num(2)),
       StandingsRow("Paraguay", Num(1), NumStr(1), Num(1)) >>))

\* a usable standings table of teams that no manual fixture names
OtherStandings ==
  Table({"Team"}, DataFrame(StandingsCols,
    << StandingsRow("Uruguay", Num(2), Num(2), Num(2)),
       StandingsRow("Venezuela", Num(2), Num(1), Num(3)) >>))

\* a table that matches "Team" and has no column GF
OtherColumns ==
  Table({"Team"}, DataFrame(<<"Team", "Pld", "F", "A">>,
    << <<Str(<<"Argentina">>), Num(2), Num(4), Num(1)>> >>))

\* a table of the header row only
HeaderOnly == Table({"Team"}, DataFrame(StandingsCols, <<>>))

StandingsTables ==
  {FullStandings, DirtyStandings, OtherStandings, OtherColumns, HeaderOnly}

\* a results table Home, score, Away; the second row's home cell spells the
\* team with a non-breaking space after it
LiveFixtures ==
  Table({FixturePattern}, DataFrame(<<"0", "1", "2">>,
    << <<Str(<<"Uruguay">>), Str(<<"1-0">>), Str(<<"Venezuela">>)>>,
       <<Str(<<"Argentina", "NBSP">>), Str(<<"v">>), Str(<<"Chile">>)>> >>))

\* a results table of teams outside every standings table
ForeignFixtures ==
  Table({FixturePattern}, DataFrame(<<"0", "1", "2">>,
    << <<Str(<<"Japan">>), Str(<<"2-2">>), Str(<<"Qatar">>)>> >>))

\* a table that matches the date and has two columns
NarrowFixtures ==
  Table({FixturePattern}, DataFrame(<<"0", "1">>,
    << <<Str(<<"Uruguay">>), Str(<<"Venezuela">>)>> >>))

FixtureTables == {LiveFixtures, ForeignFixtures, NarrowFixtures}

\* a failed request, or the page with at most one standings table followed
\* by at most one results table
FailedPages == {Page(st, <<>>) : st \in FailureStatus}

WikiPages ==
  FailedPages
    \cup {Page("ok", <<>>)}
    \cup {Page("ok", <<s>>) : s \in StandingsTables}
    \cup {Page("ok", <<f>>) : f \in FixtureTables}
    \cup {Page("ok", <<s, f>>) : s \in StandingsTables, f \in FixtureTables}

EloRatings ==
  Table({"Team"}, DataFrame(<<"team", "elo">>,
    << <<Str(<<"Finland">>), Num(1500)>>,
       <<Str(<<"Poland">>), NumStr(1900)>> >>))

EloOtherColumns ==
  Table({"Team"}, DataFrame(<<"Team", "Elo">>,
    << <<Str(<<"Finland">>), Num(1500)>> >>))

EloNotNumeric ==
  Table({"Team"}, DataFrame(<<"team", "elo">>,
    << <<Str(<<"Finland">>), Str(<<"n/a">>)>> >>))

EloTables == {EloRatings, EloOtherColumns, EloNotNumeric}

EloPages ==
  FailedPages \cup {Page("ok", ts) : ts \in SeqsUpTo(EloTables, 1)}

Team(homeAway, name) == Competitor(homeAway, TRUE, name, name, FALSE, <<>>)

TeamRec(homeAway, name, w, l) ==
  Competitor(homeAway, TRUE, name, name, TRUE, << <<NumStr(w), NumStr(l)>> >>)

UefaMatch ==
  Event(TRUE, << Competition(TRUE, "uefa",
    <<Team("home", "Finland"), Team("away", "Poland")>>) >>)

UefaAwayFirst ==
  Event(TRUE, << Competition(TRUE, "uefa",
    <<Team("away", "Finland"), Team("home", "Poland")>>) >>)

UefaUnrated ==
  Event(TRUE, << Competition(TRUE, "uefa",
    <<Team("home", "Malta"), Team("away", "Andorra")>>) >>)

NoTypeMatch ==
  Event(TRUE, << Competition(FALSE, "",
    <<Team("home", "Japan"), Team("away", "Qatar")>>) >>)

OneCompetitor ==
  Event(TRUE, << Competition(TRUE, "uefa", <<Team("home", "Finland")>>) >>)

NoCompetitions == Event(FALSE, <<>>)

UefaEvents ==
  {UefaMatch, UefaAwayFirst, UefaUnrated, NoTypeMatch, OneCompetitor,
   NoCompetitions}

WnbaGame ==
  Event(TRUE, << Competition(FALSE, "",
    <<TeamRec("away", "Indiana Fever", 1, 1),
      TeamRec("home", "Atlanta Dream", 3, 1)>>) >>)

WnbaLopsided ==
  Event(TRUE, << Competition(FALSE, "",
    <<TeamRec("home", "Atlanta Dream", 10, 0),
      TeamRec("away", "Indiana Fever", 0, 10)>>) >>)

WnbaNoRecords ==
  Event(TRUE, << Competition(FALSE, "",
    <<Team("home", "Atlanta Dream"), Team("away", "Indiana Fever")>>) >>)

WnbaTie ==
  Event(TRUE, << Competition(FALSE, "",
    <<Competitor("home", TRUE, "Atlanta Dream", "Atlanta Dream", TRUE,
                 << <<NumStr(3), NumStr(1), NumStr(1)>> >>),
      TeamRec("away", "Indiana Fever", 1, 1)>>) >>)

WnbaNoHome ==
  Event(TRUE, << Competition(FALSE, "",
    <<TeamRec("away", "Atlanta Dream", 3, 1),
      TeamRec("away", "Indiana Fever", 1, 1)>>) >>)

WnbaEvents ==
  {WnbaGame, WnbaLopsided, WnbaNoRecords, WnbaTie, WnbaNoHome, NoCompetitions}

FailedBodies == {Body(st, EmptyDoc) : st \in FailureStatus}

Bodies(events) ==
  FailedBodies
    \cup {Body("ok", EmptyDoc), Body("ok", ListDoc)}
    \cup {Body("ok", Doc(es)) : es \in SeqsUpTo(events, MaxEvents)}

\* tables for direct calls of fetch_table: one matching "Team" only and one
\* matching both patterns
BothPatterns ==
  Table({"Team", FixturePattern}, DataFrame(<<"0", "1", "2">>,
    << <<Str(<<"Team">>), Str(<<"5", "June", "2025">>), Str(<<"Peru">>)>> >>))

UnitTables == {OtherStandings, BothPatterns}

\* a failed request, or a page of at most MaxTables different tables
UnitPages ==
  FailedPages
    \cup {Page("ok", ts) : ts \in
            {s \in SeqsUpTo(UnitTables, MaxTables) :
               \A i, j \in 1..Len(s) : i # j => s[i] # s[j]}}

UnitBodies == Bodies({WnbaGame})

\* the arguments the program calls the helpers with
TableKeys ==
  {<<wiki_url, "Team">>, <<wiki_url, FixturePattern>>, <<elo_url, "Team">>}

Dates == TODAY(StartHour)..TODAY(MaxTime)

JsonUrls == {espn_url(d) : d \in Dates} \cup {wnba_url(d) : d \in Dates}

JsonKeys == {<<u>> : u \in JsonUrls}

(***************************************************************************)
(* The dashboard: one action per rerun of the script, by the block the     *)
(* sidebar radio selects.  A request is answered only if it is issued.     *)
(***************************************************************************)
Init ==
  /\ now = StartHour
  /\ tcache = [k \in TableKeys |-> NoTableEntry]
  /\ jcache = [k \in JsonKeys |-> NoJsonEntry]
  /\ sel = SPORT_FUNCS[1]
  /\ ui = Blank
  /\ df = Ret(EmptyDataFrame)
  /\ calls = <<>>
  /\ net = <<>>
  /\ nops = 0

\* the clock advances by an hour
Tick ==
  /\ now < MaxTime
  /\ now' = now + 1
  /\ UNCHANGED <<tcache, jcache, sel, ui, df, calls, net, nops>>

\* the call numbered i of an operation was answered by the network
Requested(cs, i) == Len(cs) >= i /\ ~cs[i].hit

\* the answers a call can get: none while its entry is served
Answers(cache, key, none, answers) ==
  IF Fresh(cache, key, now) THEN {none} ELSE answers \cup {none}

Rendered(s, o) ==
  /\ sel' = s
  /\ df' = o.ret
  /\ ui' = Show(o.ret)
  /\ calls' = o.calls
  /\ net' = <<>>
  /\ nops' = nops + 1
  /\ UNCHANGED now

\* a rerun with the first block selected, the standings request answered
\* from pages1 and the fixtures request from pages2
RenderConmebolFrom(pages1, pages2) ==
  /\ nops < MaxRenders
  /\ \E p1 \in Answers(tcache, <<wiki_url, "Team">>, NoPage, pages1),
        p2 \in Answers(tcache, <<wiki_url, FixturePattern>>, NoPage, pages2) :
       \E o \in {conmebol_predictions(tcache, now, p1, p2)} :
           /\ (p1 # NoPage) <=> Requested(o.calls, 1)
           /\ (p2 # NoPage) <=> Requested(o.calls, 2)
           /\ tcache' = o.cache
           /\ UNCHANGED jcache
           /\ Rendered(Conmebol, o)

RenderConmebol == RenderConmebolFrom(WikiPages, WikiPages)

RenderUefa ==
  /\ nops < MaxRenders
  /\ \E b \in Answers(jcache, <<espn_url(TODAY(now))>>, NoBody, Bodies(UefaEvents)),
        p \in Answers(tcache, <<elo_url, "Team">>, NoPage, EloPages) :
       \E o \in {uefa_predictions(tcache, jcache, now, b, p)} :
           /\ (b # NoBody) <=> Requested(o.calls, 1)
           /\ (p # NoPage) <=> Requested(o.calls, 2)
           /\ tcache' = o.tcache
           /\ jcache' = o.jcache
           /\ Rendered(Uefa, o)

RenderWnba ==
  /\ nops < MaxRenders
  /\ \E b \in Answers(jcache, <<wnba_url(TODAY(now))>>, NoBody, Bodies(WnbaEvents)) :
       \E o \in {wnba_predictions(tcache, jcache, now, b)} :
           /\ (b # NoBody) <=> Requested(o.calls, 1)
           /\ tcache' = o.tcache
           /\ jcache' = o.jcache
           /\ Rendered(Wnba, o)

Next == Tick \/ RenderConmebol \/ RenderUefa \/ RenderWnba

Spec == Init /\ [][Next]_vars

(***************************************************************************)
(* The fetch helpers by themselves: any sequence of calls with the         *)
(* arguments the program uses, each answered by the network if issued.     *)
(***************************************************************************)
Called(c, answer) ==
  /\ calls' = <<c.rec>>
  /\ net' = <<answer>>
  /\ nops' = nops + 1
  /\ UNCHANGED <<now, sel, ui, df>>

CallFetchTable ==
  /\ nops < MaxCalls
  /\ \E key \in TableKeys :
     \E page \in Answers(tcache, key, NoPage, UnitPages) :
       LET c == cached_fetch_table(tcache, now, key[1], key[2], page)
       IN  /\ (page # NoPage) <=> ~c.rec.hit
           /\ tcache' = c.cache
           /\ UNCHANGED jcache
           /\ Called(c, page)

CallFetchJson ==
  /\ nops < MaxCalls
  /\ \E url \in {espn_url(TODAY(now)), wnba_url(TODAY(now))} :
     \E body \in Answers(jcache, <<url>>, NoBody, UnitBodies) :
       LET c == cached_fetch_json(jcache, now, url, body)
       IN  /\ (body # NoBody) <=> ~c.rec.hit
           /\ jcache' = c.cache
           /\ UNCHANGED tcache
           /\ Called(c, body)

NextFetch == Tick \/ CallFetchTable \/ CallFetchJson

SpecFetch == Init /\ [][NextFetch]_vars

(***************************************************************************)
(* The ratings of conmebol_predictions on generated standings: the first   *)
(* MaxTeams teams of the qualification, each with matches played and goals *)
(* for up to MaxCount (and the goals against that make goals for and       *)
(* against MaxCount together); the fixtures request fails (manual list).   *)
(***************************************************************************)
TeamNames == <<"Argentina", "Colombia", "Brazil", "Paraguay">>

GeneratedRows(n) ==
  {StandingsRow(TeamNames[n], Num(mp), Num(gf), Num(MaxCount - gf)) :
     mp \in 0..MaxCount, gf \in 0..MaxCount}

\* the tables of the first k teams
RECURSIVE StandingsOf(_)
StandingsOf(k) ==
  IF k = 0 THEN {<<>>}
  ELSE {Append(rows, r) : rows \in StandingsOf(k - 1), r \in GeneratedRows(k)}

GeneratedStandings == UNION {StandingsOf(k) : k \in 1..MaxTeams}

GeneratedPages ==
  {Page("ok", <<Table({"Team"}, DataFrame(StandingsCols, rows))>>) :
     rows \in GeneratedStandings}

RateGenerated == RenderConmebolFrom(GeneratedPages, {Page("timeout", <<>>)})

NextRatings == RateGenerated

SpecRatings == Init /\ [][NextRatings]_vars

(***************************************************************************)
(* Properties                                                              *)
(***************************************************************************)
AnyEntry == (\E k \in TableKeys : tcache[k].has) \/ (\E k \in JsonKeys : jcache[k].has)

Younger(e) == e.has /\ now - e.at < TTL

\* C4: fetch_table and fetch_json are read-through caches keyed by their
\* arguments with a ttl of 4 hours: a call whose arguments have an entry
\* younger than 4 hours returns the stored result, leaves the store alone and
\* is answered without the network; any other call is answered by one
\* request and stores what the function returned under its arguments.
C4_ReadThroughCache ==
  [][nops' = nops + 1 =>
       LET c == calls'[1]
           r == net'[1]
       IN  /\ c.fn = "fetch_table" =>
                IF Younger(tcache[c.key])
                THEN /\ r = NoPage
                     /\ c.ret = Ret(tcache[c.key].val)
                     /\ tcache' = tcache
                ELSE /\ r \in UnitPages
                     /\ c.requests = 1
                     /\ tcache' = [tcache EXCEPT ![c.key] = Entry(c.ret.val, now)]
           /\ c.fn = "fetch_json" =>
                IF Younger(jcache[c.key])
                THEN /\ r = NoBody
                     /\ c.ret = Ret(jcache[c.key].val)
                     /\ jcache' = jcache
                ELSE /\ r \in UnitBodies
                     /\ c.requests = 1
                     /\ jcache' = [jcache EXCEPT ![c.key] = Entry(c.ret.val, now)]
  ]_vars

\* C4 witness: a second call answered from an entry stored by a first one
\* that failed, some hours later
C4_Witness ==
  /\ nops = 2
  /\ calls[1].hit
  /\ calls[1].fn = "fetch_table"
  /\ calls[1].ret.val = EmptyDataFrame
  /\ now - tcache[calls[1].key].at = TTL - 1

\* C5: the dashboard offers a manual refresh: whenever an entry is cached,
\* a rerun is possible that happens at once and leaves no entry in either
\* store, so that the next read of any URL goes to the network.
C5_RefreshClearsCache ==
  (nops < MaxRenders /\ AnyEntry) =>
     ENABLED (Next /\ now' = now
                   /\ (\A k \in TableKeys : ~tcache'[k].has)
                   /\ (\A k \in JsonKeys : ~jcache'[k].has))

\* the tables of a page that match a pattern, by position
Matching(page, match) ==
  {i \in 1..Len(page.tables) : match \in page.tables[i].tags}

First(S) == CHOOSE i \in S : \A j \in S : i <= j

\* C6: fetch_table returns an empty table and fetch_json an empty document,
\* and neither raises, whenever the request or the parse fails (unreachable,
\* timeout, HTTP error status, malformed body, no table matching); on
\* success fetch_table returns the first matching table of the page and
\* fetch_json the parsed body.
C6_FetchNeverRaises ==
  \A i \in 1..Len(net) :
    LET c == calls[i]
        r == net[i]
    IN  r.status # "none" =>
          /\ c.ret.exc = "none"
          /\ c.fn = "fetch_table" =>
               IF r.status # "ok" \/ Matching(r, c.key[2]) = {}
               THEN c.ret.val = EmptyDataFrame
               ELSE c.ret.val = r.tables[First(Matching(r, c.key[2]))].d
          /\ c.fn = "fetch_json" =>
               IF r.status # "ok" THEN c.ret.val = EmptyDoc
               ELSE c.ret.val = r.doc

\* C6 witness: a page that has tables, none of them matching the pattern,
\* was answered with the empty table
C6_Witness ==
  /\ Len(net) = 1
  /\ calls[1].fn = "fetch_table"
  /\ net[1].status = "ok"
  /\ net[1].tables # <<>>
  /\ Matching(net[1], calls[1].key[2]) = {}
  /\ calls[1].ret = Ret(EmptyDataFrame)

\* C1: whatever the sources answer, the selected prediction function
\* returns a table to the UI: no exception leaves it.
C1_NoExceptionReachesUI == df.exc = "none" /\ ui.kind # "exception"

\* C2: every block has a fallback, so the table handed to the UI is never
\* empty: no rerun ends in the empty-table error.
C2_NeverEmptyTable == ui.kind # "error"

WnbaFallback ==
  DataFrame(PredCols, <<PredRow("Atlanta Dream", "Indiana Fever", 640, 360)>>)

\* the document a scoreboard call returned has no events
NoEvents(c) == c.ret.exc = "none" /\ c.ret.val.kind = "dict" /\ c.ret.val.events = <<>>

\* C3: with the WNBA block selected and a scoreboard of zero events (empty
\* list or failed fetch) the rendered table is exactly the fallback row
\* Atlanta Dream v Indiana Fever, 0.64 / 0.36.
C3_WnbaFallbackRow ==
  (nops > 0 /\ sel = Wnba /\ NoEvents(calls[1])) =>
     (df = Ret(WnbaFallback) /\ ui.kind = "dataframe")

\* the last rerun was of the first block and reached the fixtures with a
\* standings table that has the four columns
ConmebolRated == nops > 0 /\ sel = Conmebol /\ Len(calls) = 2

LastStandings == CleanStandings(calls[1].ret.val)
LastFixtures == FixturesOf(calls[2].ret.val)

Known(st, fixtures) ==
  SelectSeq(fixtures, LAMBDA fx : InIndex(st, fx.Home) /\ InIndex(st, fx.Away))

Pairing(rows) == [i \in 1..Len(rows) |-> Fixture(rows[i].Home, rows[i].Away)]

Numeric(r) == r.MP.k = "fin" /\ r.GF.k = "fin" /\ r.GA.k = "fin"

AllNumeric(st) == \A i \in 1..Len(st) : Numeric(st[i])

\* C7: with a usable standings table (the four columns, every row numeric)
\* the result has exactly one row per fixture whose two teams are in the
\* standings index, in the order of the fixture list, and no row for any
\* other fixture.
C7_OneRowPerKnownFixture ==
  (ConmebolRated /\ AllNumeric(LastStandings) /\ LastFixtures.exc = "none") =>
     /\ df.exc = "none"
     /\ Pairing(df.val.rows) = Known(LastStandings, LastFixtures.val)

\* C8: a standings row whose MP, GF or GA is not numeric is dropped before
\* the league average: it is in neither sum of league_avg and has neither
\* rating.
C8_DirtyRowsDropped ==
  ConmebolRated =>
     LET st == LastStandings
         clean == SelectSeq(st, Numeric)
     IN  /\ league_GF(st) = league_GF(clean)
         /\ league_MP(st) = league_MP(clean)
         /\ \A i \in 1..Len(st) :
              ~Numeric(st[i]) =>
                 attack(st, st[i]).k = "nan" /\ defence(st, st[i]).k = "nan"

RECURSIVE FSum(_)
FSum(xs) == IF xs = <<>> THEN Zero ELSE FAdd(Head(xs), FSum(Tail(xs)))

WeightedAttack(st) ==
  FSum([i \in 1..Len(st) |-> FMul(attack(st, st[i]), FAdd(st[i].MP, alpha))])

SmoothedGoals(st) == FSum([i \in 1..Len(st) |-> FAdd(st[i].GF, alpha)])

\* C9 as claimed: for standings of non-negative integer MP and GF the sum
\* of attack * (MP + alpha) over the teams equals the sum of GF + alpha.
C9_AttackSumIsGoalSum ==
  (ConmebolRated /\ AllNumeric(LastStandings)) =>
     WeightedAttack(LastStandings) = SmoothedGoals(LastStandings)

\* C9 amended: for standings of non-negative integer MP and GF the sum of
\* attack * (MP + alpha) over the teams, times league_avg, equals the sum of
\* GF + alpha (attack is the smoothed goal rate divided by league_avg).
C9_AttackSumTimesAverage ==
  (ConmebolRated /\ AllNumeric(LastStandings)) =>
     FMul(WeightedAttack(LastStandings), league_avg(LastStandings))
       = SmoothedGoals(LastStandings)

\* C9 witness: two teams were rated, with different matches played and
\* different goals for
C9_Witness ==
  /\ ConmebolRated
  /\ Len(LastStandings) = 2
  /\ LastStandings[1].MP # LastStandings[2].MP
  /\ LastStandings[1].GF # LastStandings[2].GF
  /\ LastStandings[2].GF.n > 0

Scorelines == (0..GoalRange - 1) \X (0..GoalRange - 1)

\* C10: for every fixture with both teams in the index a row is computed
\* in which each of the 49 scorelines gives its mass to exactly one of home
\* win (i > j), draw (i = j) and away win (i < j), and to over 2.5 exactly
\* when i + j > 2.
C10_ScorelinesPartitioned ==
  (ConmebolRated /\ AllNumeric(LastStandings) /\ LastFixtures.exc = "none"
     /\ Known(LastStandings, LastFixtures.val) # <<>>) =>
     /\ df.exc = "none"
     /\ df.val.rows # <<>>
     /\ \A n \in 1..Len(df.val.rows) :
          LET r == df.val.rows[n]
          IN  /\ r.PHome = {s \in Scorelines : s[1] > s[2]}
              /\ r.PDraw = {s \in Scorelines : s[1] = s[2]}
              /\ r.PAway = {s \in Scorelines : s[1] < s[2]}
              /\ r.POver25 = {s \in Scorelines : s[1] + s[2] > 2}

====
